---------------------------- MODULE Spec2Model ----------------------------
(***************************************************************************)
(* SilentCommander (src/silent_commander.py): a transcription is split at  *)
(* the connectives "and"/"then", each fragment is trimmed and lower-cased, *)
(* classified as a search, an open-settings or an open-site command, and   *)
(* executed through the browser or the per-OS settings launcher.           *)
(*                                                                         *)
(* A Python str is modelled as a sequence of one-character strings, so     *)
(* that splitting, trimming, case folding, prefix stripping and substring  *)
(* tests are computed character by character as the code computes them.    *)
(***************************************************************************)
EXTENDS Naturals, Sequences, FiniteSets, TLC

VARIABLES
    transcription,  \* the argument of execute
    os_type,        \* self.os_type, set once in __init__
    has_startfile,  \* hasattr(os, 'startfile') of the running interpreter
    pc,             \* position inside execute
    parts,          \* the list re.split returned
    idx,            \* 1-based index of the loop variable `part` in parts
    dispatched,     \* every clean_cmd handed to _dispatch, in order
    gateway,        \* every gateway method invoked, with its argument, in order
    pending,        \* the gateway calls the current segment still has to make
    calls,          \* external calls attempted so far, in order
    failures,       \* segments whose external call raised
    raised          \* TRUE once an exception has escaped execute

vars == <<transcription, os_type, has_startfile, pc, parts, idx, dispatched,
          gateway, pending, calls, failures, raised>>

---------------------------------------------------------------------------
(* Characters *)

LowerLetters ==
    {"a","b","c","d","e","f","g","h","i","j","k","l","m",
     "n","o","p","q","r","s","t","u","v","w","x","y","z"}

UpperLetters ==
    {"A","B","C","D","E","F","G","H","I","J","K","L","M",
     "N","O","P","Q","R","S","T","U","V","W","X","Y","Z"}

Digits == {"0","1","2","3","4","5","6","7","8","9"}

\* str.lower() on one ASCII character
LowerTable ==
    ("A" :> "a") @@ ("B" :> "b") @@ ("C" :> "c") @@ ("D" :> "d") @@
    ("E" :> "e") @@ ("F" :> "f") @@ ("G" :> "g") @@ ("H" :> "h") @@
    ("I" :> "i") @@ ("J" :> "j") @@ ("K" :> "k") @@ ("L" :> "l") @@
    ("M" :> "m") @@ ("N" :> "n") @@ ("O" :> "o") @@ ("P" :> "p") @@
    ("Q" :> "q") @@ ("R" :> "r") @@ ("S" :> "s") @@ ("T" :> "t") @@
    ("U" :> "u") @@ ("V" :> "v") @@ ("W" :> "w") @@ ("X" :> "x") @@
    ("Y" :> "y") @@ ("Z" :> "z")

LowerChar(c) == IF c \in UpperLetters THEN LowerTable[c] ELSE c

\* \s of the re module and the characters str.strip() removes
IsSpace(c) == c \in {" ", "\t"}

\* \w of the re module
WordChars == LowerLetters \cup UpperLetters \cup Digits \cup {"_"}

IsWordChar(c) == c \in WordChars

---------------------------------------------------------------------------
(* str methods *)

\* str.lower(); SubSeq makes the result a tuple
Lower(s) == SubSeq([k \in 1..Len(s) |-> LowerChar(s[k])], 1, Len(s))

RECURSIVE LeadingSpaces(_, _)
\* number of whitespace characters of s starting at position p
LeadingSpaces(s, p) ==
    IF p <= Len(s) /\ IsSpace(s[p]) THEN 1 + LeadingSpaces(s, p + 1) ELSE 0

RECURSIVE TrailingSpaces(_, _)
\* number of whitespace characters of s ending at position p
TrailingSpaces(s, p) ==
    IF p >= 1 /\ IsSpace(s[p]) THEN 1 + TrailingSpaces(s, p - 1) ELSE 0

\* str.strip()
Strip(s) ==
    LET a == LeadingSpaces(s, 1)
    IN  IF a = Len(s) THEN << >>
        ELSE SubSeq(s, a + 1, Len(s) - TrailingSpaces(s, Len(s)))

\* s[p:].startswith(w), p 1-based
MatchAt(s, p, w) ==
    /\ p + Len(w) - 1 <= Len(s)
    /\ \A k \in 1..Len(w) : s[p + k - 1] = w[k]

StartsWith(s, w) == MatchAt(s, 1, w)

\* w in s
Contains(s, w) == \E p \in 1..(Len(s) - Len(w) + 1) : MatchAt(s, p, w)

---------------------------------------------------------------------------
(* re.split(r'\b(?:and|then)\b', transcription, flags=re.IGNORECASE) *)

\* \b at the gap before position p (p in 1..Len(s)+1)
WordBoundaryAt(s, p) ==
    LET before == p > 1 /\ IsWordChar(s[p - 1])
        after  == p <= Len(s) /\ IsWordChar(s[p])
    IN  before # after

\* the match without flags=re.IGNORECASE
MatchAtCaseSensitive(s, p, w) ==
    /\ p + Len(w) - 1 <= Len(s)
    /\ \A k \in 1..Len(w) : s[p + k - 1] = w[k]

\* w matches at p, ignoring case
MatchAtIgnoreCase(s, p, w) ==
    /\ p + Len(w) - 1 <= Len(s)
    /\ \A k \in 1..Len(w) : LowerChar(s[p + k - 1]) = w[k]

\* \b w \b matches at p
WholeWordAt(s, p, w) ==
    /\ MatchAtIgnoreCase(s, p, w)
    /\ WordBoundaryAt(s, p)
    /\ WordBoundaryAt(s, p + Len(w))

\* length of the connective the pattern matches at p, 0 when it does not match
ConnectiveAt(s, p) ==
    IF WholeWordAt(s, p, <<"a","n","d">>) THEN 3
    ELSE IF WholeWordAt(s, p, <<"t","h","e","n">>) THEN 4
    ELSE 0

RECURSIVE SplitFrom(_, _, _)
\* the fragments of s from `start` on, the scan being at position p
SplitFrom(s, p, start) ==
    IF p > Len(s) THEN << SubSeq(s, start, Len(s)) >>
    ELSE LET n == ConnectiveAt(s, p)
         IN  IF n > 0
             THEN << SubSeq(s, start, p - 1) >> \o SplitFrom(s, p + n, p + n)
             ELSE SplitFrom(s, p + 1, start)

ReSplit(s) == SplitFrom(s, 1, 1)

\* clean_cmd without the strip()
CleanCmdNoStrip(part) == Lower(part)

\* clean_cmd = part.strip().lower()
CleanCmd(part) == Lower(Strip(part))

---------------------------------------------------------------------------
(* _handle_search *)

\* the prefix of the pattern without its optional "for": r'^(?:search|find)\s+'
SearchPrefixLenNoFor(command) ==
    LET v  == IF StartsWith(command, <<"s","e","a","r","c","h">>) THEN 6
              ELSE IF StartsWith(command, <<"f","i","n","d">>) THEN 4
              ELSE 0
        w1 == LeadingSpaces(command, v + 1)
    IN  IF v = 0 \/ w1 = 0 THEN 0 ELSE v + w1

\* the prefix of the pattern ending in \s* instead of \s+:
\* r'^(?:search|find)(?:\s+for)?\s*', which matches a bare verb as well
SearchPrefixLenStar(command) ==
    LET v  == IF StartsWith(command, <<"s","e","a","r","c","h">>) THEN 6
              ELSE IF StartsWith(command, <<"f","i","n","d">>) THEN 4
              ELSE 0
        w1 == LeadingSpaces(command, v + 1)
        f  == v + w1 + 1
        w2 == LeadingSpaces(command, f + 3)
    IN  IF v = 0 THEN 0
        ELSE IF w1 > 0 /\ MatchAt(command, f, <<"f","o","r">>) THEN v + w1 + 3 + w2
        ELSE v + w1

\* length of the prefix r'^(?:search|find)(?:\s+for)?\s+' matches, 0 when the
\* pattern does not match.  \s+ is greedy and "for" starts with no
\* whitespace, so each \s+ takes a whole run of whitespace; when the branch
\* with "for" cannot finish with \s+, the matcher backtracks to the branch
\* without it.
SearchPrefixLen(command) ==
    LET v  == IF StartsWith(command, <<"s","e","a","r","c","h">>) THEN 6
              ELSE IF StartsWith(command, <<"f","i","n","d">>) THEN 4
              ELSE 0
        w1 == LeadingSpaces(command, v + 1)
        f  == v + w1 + 1
        w2 == LeadingSpaces(command, f + 3)
    IN  IF v = 0 \/ w1 = 0 THEN 0
        ELSE IF MatchAt(command, f, <<"f","o","r">>) /\ w2 > 0 THEN v + w1 + 3 + w2
        ELSE v + w1

\* query = re.sub(r'^(?:search|find)(?:\s+for)?\s+', '', command).strip()
SearchQuery(command) ==
    Strip(SubSeq(command, SearchPrefixLen(command) + 1, Len(command)))

\* the %XX escapes of the other characters of the alphabet
QuoteTable == (" " :> "%20") @@ ("\t" :> "%09") @@ ("\"" :> "%22")

\* the characters urllib.parse.quote keeps (safe='/')
QuoteSafe ==
    LowerLetters \cup UpperLetters \cup Digits \cup {"_", ".", "-", "~", "/"}

\* urllib.parse.quote on one character: letters, digits and "_.-~/" are
\* kept, any other character becomes the %XX escape of its byte
QuoteChar(c) ==
    IF c \in QuoteSafe
    THEN c
    ELSE QuoteTable[c]

\* urllib.parse.quote(query)
Quote(s) == [k \in 1..Len(s) |-> QuoteChar(s[k])]

\* f"https://www.google.com/search?q={urllib.parse.quote(query)}"; a URL is
\* kept as the sequence of the pieces it is concatenated from
SearchUrl(query) == <<"https://www.google.com/search?q=">> \o Quote(query)

BrowserRequest(url) == [fn |-> "_open_browser", arg |-> url]

SettingsRequest(target) == [fn |-> "_open_system_settings", arg |-> target]

\* the gateway calls _handle_search makes, in order
handle_search(command) ==
    LET query == SearchQuery(command)
    IN  IF query # << >> THEN << BrowserRequest(SearchUrl(query)) >> ELSE << >>

---------------------------------------------------------------------------
(* _handle_open *)

\* self.site_whitelist, in insertion order
site_whitelist ==
    << [key |-> <<"y","o","u","t","u","b","e">>,   url |-> "https://www.youtube.com"],
       [key |-> <<"g","m","a","i","l">>,     url |-> "https://mail.google.com"],
       [key |-> <<"g","o","o","g","l","e">>,    url |-> "https://www.google.com"],
       [key |-> <<"r","e","d","d","i","t">>,    url |-> "https://www.reddit.com"],
       [key |-> <<"g","i","t","h","u","b">>,    url |-> "https://github.com"],
       [key |-> <<"a","m","a","z","o","n">>,    url |-> "https://www.amazon.com"],
       [key |-> <<"n","e","t","f","l","i","x">>,   url |-> "https://www.netflix.com"],
       [key |-> <<"t","w","i","t","t","e","r">>,   url |-> "https://twitter.com"],
       [key |-> <<"x">>,         url |-> "https://x.com"],
       [key |-> <<"f","a","c","e","b","o","o","k">>,  url |-> "https://www.facebook.com"],
       [key |-> <<"l","i","n","k","e","d","i","n">>,  url |-> "https://www.linkedin.com"],
       [key |-> <<"w","i","k","i","p","e","d","i","a">>, url |-> "https://www.wikipedia.org"],
       [key |-> <<"w","e","a","t","h","e","r">>,   url |-> "https://weather.com"],
       [key |-> <<"n","e","w","s">>,      url |-> "https://news.google.com"] >>

\* target = re.sub(r'^open\s+', '', command).strip()
OpenTarget(command) ==
    LET w == LeadingSpaces(command, 5)
        n == IF StartsWith(command, <<"o","p","e","n">>) /\ w > 0 THEN 4 + w ELSE 0
    IN  Strip(SubSeq(command, n + 1, Len(command)))

\* "setting" in target or "control panel" in target
IsSettingsTarget(target) ==
    Contains(target, <<"s","e","t","t","i","n","g">>) \/ Contains(target, <<"c","o","n","t","r","o","l"," ","p","a","n","e","l">>)

\* indexes of the whitelist entries whose key is a substring of target
SiteMatches(target) ==
    {k \in 1..Len(site_whitelist) : Contains(target, site_whitelist[k].key)}

\* the for loop without its `return`: every matching entry is opened
SiteScanNoReturn(target) ==
    LET hits == SelectSeq(site_whitelist, LAMBDA e : Contains(target, e.key))
    IN  [k \in 1..Len(hits) |-> BrowserRequest(<< hits[k].url >>)]

\* the for loop over self.site_whitelist.items(): the first matching entry
\* is opened and the loop is left by `return`
SiteScan(target) ==
    LET m == SiteMatches(target)
    IN  IF m = {} THEN << >>
        ELSE LET first == CHOOSE k \in m : \A j \in m : k <= j
             IN  << BrowserRequest(<< site_whitelist[first].url >>) >>

\* _handle_open with the whitelist scanned before the settings test
handle_open_sites_first(command) ==
    LET target == OpenTarget(command)
    IN  IF SiteScan(target) # << >> THEN SiteScan(target)
        ELSE IF IsSettingsTarget(target) THEN << SettingsRequest(target) >>
        ELSE << >>

\* the gateway calls _handle_open makes, in order
handle_open(command) ==
    LET target == OpenTarget(command)
    IN  IF IsSettingsTarget(target) THEN << SettingsRequest(target) >>
        ELSE SiteScan(target)

---------------------------------------------------------------------------
(* _dispatch *)

IsSearch(command) ==
    StartsWith(command, <<"s","e","a","r","c","h">>) \/ StartsWith(command, <<"f","i","n","d">>)

IsOpen(command) == StartsWith(command, <<"o","p","e","n">>)

\* dispatch with a generic fallback: a command with no known verb is searched
dispatchWithFallback(command) ==
    IF IsSearch(command) THEN handle_search(command)
    ELSE IF IsOpen(command) THEN handle_open(command)
    ELSE << BrowserRequest(SearchUrl(command)) >>

\* the gateway calls _dispatch makes for one command, in order
dispatch(command) ==
    IF IsSearch(command) THEN handle_search(command)
    ELSE IF IsOpen(command) THEN handle_open(command)
    ELSE << >>

---------------------------------------------------------------------------
(* _win_settings, _mac_settings, _linux_settings *)

\* any(w in target for w in words)
AnyIn(target, words) == \E w \in words : Contains(target, w)

KwSound   == {<<"s","o","u","n","d">>, <<"a","u","d","i","o">>, <<"v","o","l","u","m","e">>}
KwDisplay == {<<"d","i","s","p","l","a","y">>, <<"s","c","r","e","e","n">>, <<"m","o","n","i","t","o","r">>}
KwPrivacy == {<<"p","r","i","v","a","c","y">>, <<"s","e","c","u","r","i","t","y">>}

\* _win_settings with the display branch tested before the sound branch
WinUriDisplayFirst(target) ==
    IF AnyIn(target, KwDisplay) THEN "ms-settings:display"
    ELSE IF AnyIn(target, KwSound) THEN "ms-settings:sound"
    ELSE IF AnyIn(target, KwPrivacy) THEN "ms-settings:privacy"
    ELSE IF AnyIn(target, {<<"b","l","u","e","t","o","o","t","h">>, <<"d","e","v","i","c","e">>}) THEN "ms-settings:bluetooth"
    ELSE IF AnyIn(target, {<<"w","i","f","i">>, <<"n","e","t","w","o","r","k">>, <<"i","n","t","e","r","n","e","t">>}) THEN "ms-settings:network"
    ELSE IF AnyIn(target, {<<"p","o","w","e","r">>, <<"b","a","t","t","e","r","y">>, <<"s","l","e","e","p">>}) THEN "ms-settings:powersleep"
    ELSE "ms-settings:"

\* the uri _win_settings launches
WinUri(target) ==
    IF AnyIn(target, KwSound) THEN "ms-settings:sound"
    ELSE IF AnyIn(target, KwDisplay) THEN "ms-settings:display"
    ELSE IF AnyIn(target, KwPrivacy) THEN "ms-settings:privacy"
    ELSE IF AnyIn(target, {<<"b","l","u","e","t","o","o","t","h">>, <<"d","e","v","i","c","e">>}) THEN "ms-settings:bluetooth"
    ELSE IF AnyIn(target, {<<"w","i","f","i">>, <<"n","e","t","w","o","r","k">>, <<"i","n","t","e","r","n","e","t">>}) THEN "ms-settings:network"
    ELSE IF AnyIn(target, {<<"p","o","w","e","r">>, <<"b","a","t","t","e","r","y">>, <<"s","l","e","e","p">>}) THEN "ms-settings:powersleep"
    ELSE "ms-settings:"

\* os.startfile(uri) when the interpreter has it, else the shell's start
win_settings(target) ==
    IF has_startfile
    THEN [fn |-> "os.startfile", arg |-> << WinUri(target) >>]
    ELSE [fn |-> "subprocess.run", arg |-> << "start", WinUri(target) >>]

\* the pane _mac_settings appends to "x-apple.systempreferences:"
MacPane(target) ==
    IF AnyIn(target, KwSound) THEN "com.apple.preference.sound"
    ELSE IF AnyIn(target, KwDisplay) THEN "com.apple.preference.displays"
    ELSE IF AnyIn(target, KwPrivacy) THEN "com.apple.preference.security?Privacy"
    ELSE IF AnyIn(target, {<<"n","e","t","w","o","r","k">>, <<"w","i","f","i">>, <<"i","n","t","e","r","n","e","t">>}) THEN "com.apple.preference.network"
    ELSE IF AnyIn(target, {<<"u","p","d","a","t","e">>}) THEN "com.apple.preferences.softwareupdate"
    ELSE ""

\* subprocess.run(["open", uri]); the uri is kept as its two pieces
mac_settings(target) ==
    [fn |-> "subprocess.run",
     arg |-> << "open", "x-apple.systempreferences:", MacPane(target) >>]

\* the panel _linux_settings appends to the command, none by default
LinuxPanel(target) ==
    IF AnyIn(target, KwSound) THEN << "sound" >>
    ELSE IF AnyIn(target, KwDisplay) THEN << "display" >>
    ELSE IF AnyIn(target, {<<"n","e","t","w","o","r","k">>, <<"w","i","f","i">>}) THEN << "network" >>
    ELSE IF AnyIn(target, {<<"b","l","u","e","t","o","o","t","h">>}) THEN << "bluetooth" >>
    ELSE IF AnyIn(target, {<<"p","o","w","e","r">>}) THEN << "power" >>
    ELSE << >>

\* subprocess.run(cmd)
linux_settings(target) ==
    [fn |-> "subprocess.run",
     arg |-> << "gnome-control-center" >> \o LinuxPanel(target)]

\* the values platform.system().lower() takes: the three families the code
\* knows and one it does not
OsTypes == {"windows", "darwin", "linux", "java"}

\* the external calls _open_system_settings attempts for target
SettingsCalls(target) ==
    IF os_type = "windows" THEN << win_settings(target) >>
    ELSE IF os_type = "darwin" THEN << mac_settings(target) >>
    ELSE IF os_type = "linux" THEN << linux_settings(target) >>
    ELSE << >>

\* the external call _open_browser attempts for url
BrowserCalls(url) == << [fn |-> "webbrowser.open_new_tab", arg |-> url] >>

\* _open_browser without its try/except
BrowserPropagatesNoTry(failed) == failed

\* `except Exception: pass` of _open_browser: whether an exception raised by
\* webbrowser.open_new_tab leaves the method
BrowserPropagates(failed) == FALSE

\* `except Exception: pass` of _open_system_settings: whether an exception
\* raised by the launcher leaves the method
SettingsPropagates(failed) == FALSE

---------------------------------------------------------------------------
(* Transcriptions the model runs execute on *)

\* number of words of a generated transcription
MaxTokens == 3

Vocabulary ==
    {<<"o","p","e","n">>, <<"s","e","a","r","c","h">>, <<"f","o","r">>, <<"a","n","d">>, <<"y","o","u","t","u","b","e">>, <<"s","e","t","t","i","n","g","s">>,
     <<"s","o","u","n","d">>}

RECURSIVE Join(_)
\* " ".join(ws)
Join(ws) ==
    IF ws = << >> THEN << >>
    ELSE IF Len(ws) = 1 THEN ws[1]
    ELSE ws[1] \o << " " >> \o Join(Tail(ws))

Generated ==
    {Join(ws) : ws \in UNION {[1..n -> Vocabulary] : n \in 0..MaxTokens}}

Examples ==
    {<<"o","p","e","n"," ","y","o","u","t","u","b","e"," ","t","h","e","n"," ","s","e","a","r","c","h"," ","d","o","g","s">>,
     <<"f","r","o","b","n","i","c","a","t","e"," ","t","h","e"," ","w","h","a","t","s","i","t">>,
     <<"o","p","e","n"," ","m","u","s","i","c">>,
     <<"o","p","e","n"," ","s","a","n","d","y"," ","s","e","t","t","i","n","g","s">>,
     <<"s","e","a","r","c","h"," ","\"","r","o","c","k"," ","a","n","d"," ","r","o","l","l","\"">>,
     <<"s","e","a","r","c","h"," ","r","o","c","k","-","a","n","d","-","r","o","l","l">>,
     <<"s","e","a","r","c","h"," ","a","n","d","_","t","h","e","n">>,
     <<"o","p","e","n"," ","y","o","u","t","u","b","e"," ","m","u","s","i","c">>,
     <<"o","p","e","n"," ","n","e","t","f","l","i","x">>,
     <<"o","p","e","n"," ","g","o","o","g","l","e"," ","y","o","u","t","u","b","e">>,
     <<"o","p","e","n"," ","x","b","o","x"," ","g","i","t","h","u","b">>,
     <<"S","e","a","r","c","h"," ","F","o","r"," ","C","a","t","s"," ","T","h","e","n"," ","O","p","e","n"," ","G","i","t","h","u","b">>,
     <<"o","p","e","n"," ","r","e","d","d","i","t"," ","T","H","E","N"," ","f","i","n","d"," ","n","e","w","s">>,
     <<"s","e","a","r","c","h"," ","f","o","r"," ","f","o","r">>,
     <<"o","p","e","n"," ","y","o","u","t","u","b","e"," ","s","e","t","t","i","n","g","s">>,
     <<"o","p","e","n"," ","c","o","n","t","r","o","l"," ","p","a","n","e","l">>,
     <<"s","e","a","r","c","h"," ","f","o","r"," ","c","a","t","s"," ","a","n","d"," ","o","p","e","n"," ","y","o","u","t","u","b","e">>,
     <<"f","i","n","d"," ","d","o","g","s">>,
     <<"o","p","e","n"," ","s","e","t","t","i","n","g","s"," ","s","o","u","n","d">>,
     <<"o","p","e","n"," ","s","c","r","e","e","n"," ","v","o","l","u","m","e"," ","s","e","t","t","i","n","g","s">>,
     <<"o","p","e","n"," ","w","i","f","i"," ","d","e","v","i","c","e"," ","s","e","t","t","i","n","g","s">>,
     <<"o","p","e","n"," ","p","o","w","e","r"," ","n","e","t","w","o","r","k"," ","s","e","t","t","i","n","g","s">>,
     <<"o","p","e","n"," ","u","p","d","a","t","e"," ","p","r","i","v","a","c","y"," ","s","e","t","t","i","n","g","s">>,
     <<"o","p","e","n"," ","b","l","u","e","t","o","o","t","h"," ","s","e","t","t","i","n","g","s">>,
     <<"O","P","E","N"," ","Y","o","u","T","u","b","e">>,
     <<"O","p","e","n"," ","G","m","a","i","l"," ","A","N","D"," ","S","e","a","r","c","h"," ","C","a","t","s">>,
     <<"o","p","e","n"," ","s","e","t","t","i","n","g","s"," ","a","n","d"," ","t","h","e","n"," ","o","p","e","n"," ","y","o","u","t","u","b","e">>,
     <<" "," "," ">>,
     <<" ","\t">>,
     <<" "," ","o","p","e","n","\t","y","o","u","t","u","b","e"," "," ","a","n","d"," "," ","s","e","a","r","c","h"," "," ","f","o","r"," "," "," ","c","a","t","s"," ">>,
     <<"s","e","a","r","c","h">>,
     <<"f","i","n","d">>,
     <<"f","i","n","d","e","r">>,
     <<"s","e","a","r","c","h"," ","f","o","r">>,
     <<"s","e","a","r","c","h"," ","f","o","r","e","s","t","s">>,
     <<"o","p","e","n","y","o","u","t","u","b","e">>,
     <<"o","p","e","n","i","n","g"," ","s","e","t","t","i","n","g","s">>}

UpperTable ==
    ("a" :> "A") @@ ("b" :> "B") @@ ("c" :> "C") @@ ("d" :> "D") @@
    ("e" :> "E") @@ ("f" :> "F") @@ ("g" :> "G") @@ ("h" :> "H") @@
    ("i" :> "I") @@ ("j" :> "J") @@ ("k" :> "K") @@ ("l" :> "L") @@
    ("m" :> "M") @@ ("n" :> "N") @@ ("o" :> "O") @@ ("p" :> "P") @@
    ("q" :> "Q") @@ ("r" :> "R") @@ ("s" :> "S") @@ ("t" :> "T") @@
    ("u" :> "U") @@ ("v" :> "V") @@ ("w" :> "W") @@ ("x" :> "X") @@
    ("y" :> "Y") @@ ("z" :> "Z")

UpperChar(c) == IF c \in LowerLetters THEN UpperTable[c] ELSE c

\* the spellings of one transcription the model runs: as written and in
\* capitals
CaseStyles == {"asis", "upper"}

ApplyCase(style, s) ==
    IF style = "upper" THEN [k \in 1..Len(s) |-> UpperChar(s[k])] ELSE s

Transcriptions ==
    {ApplyCase(st, t) : st \in CaseStyles, t \in Examples \cup Generated}

---------------------------------------------------------------------------
(* execute *)

\* the external calls one gateway request attempts
ExternalCalls(req) ==
    IF req.fn = "_open_browser" THEN BrowserCalls(req.arg)
    ELSE SettingsCalls(req.arg)

\* xs, each entry carrying the index of the segment that caused it
Tag(xs, seg) ==
    [k \in 1..Len(xs) |-> [fn |-> xs[k].fn, arg |-> xs[k].arg, seg |-> seg]]

Untag(xs) == [k \in 1..Len(xs) |-> [fn |-> xs[k].fn, arg |-> xs[k].arg]]

RECURSIVE ReqCalls(_)
\* the external calls a list of gateway requests attempts, in order
ReqCalls(reqs) ==
    IF reqs = << >> THEN << >>
    ELSE ExternalCalls(Head(reqs)) \o ReqCalls(Tail(reqs))

RECURSIVE CallsFrom(_, _)
\* the external calls the loop attempts from fragment i of ps on
CallsFrom(ps, i) ==
    IF i > Len(ps) THEN << >>
    ELSE LET clean_cmd == CleanCmd(ps[i])
         IN  (IF clean_cmd = << >> THEN << >>
              ELSE ReqCalls(dispatch(clean_cmd))) \o CallsFrom(ps, i + 1)

\* the external calls execute(t) attempts when every one of them returns
RunCalls(t) == IF t = << >> THEN << >> ELSE CallsFrom(ReSplit(t), 1)

RECURSIVE CommandsFrom(_, _)
\* the commands the loop hands to _dispatch from fragment i of ps on
CommandsFrom(ps, i) ==
    IF i > Len(ps) THEN << >>
    ELSE LET clean_cmd == CleanCmd(ps[i])
         IN  (IF clean_cmd = << >> THEN << >> ELSE << clean_cmd >>)
             \o CommandsFrom(ps, i + 1)

\* the commands execute(t) hands to _dispatch
RunCommands(t) == IF t = << >> THEN << >> ELSE CommandsFrom(ReSplit(t), 1)

Init ==
    /\ transcription \in Transcriptions
    /\ os_type \in OsTypes
    /\ has_startfile \in (IF os_type = "windows" THEN BOOLEAN ELSE {FALSE})
    /\ pc = "execute"
    /\ parts = << >>
    /\ idx = 0
    /\ dispatched = << >>
    /\ gateway = << >>
    /\ pending = << >>
    /\ calls = << >>
    /\ failures = {}
    /\ raised = FALSE

\* if not transcription: return
ExecuteEmpty ==
    /\ pc = "execute"
    /\ transcription = << >>
    /\ pc' = "done"
    /\ UNCHANGED <<transcription, os_type, has_startfile, parts, idx,
                   dispatched, gateway, pending, calls, failures, raised>>

\* parts = re.split(...), and the for loop is entered
ExecuteSplit ==
    /\ pc = "execute"
    /\ transcription # << >>
    /\ parts' = ReSplit(transcription)
    /\ idx' = 1
    /\ pc' = "loop"
    /\ UNCHANGED <<transcription, os_type, has_startfile, dispatched,
                   gateway, pending, calls, failures, raised>>

\* part, were the loop to run over reversed(parts)
partReversed(i) == parts[Len(parts) + 1 - i]

\* the loop variable of `for part in parts` in iteration i
part(i) == parts[i]

\* if not clean_cmd: continue
LoopContinue ==
    /\ pc = "loop"
    /\ idx <= Len(parts)
    /\ CleanCmd(part(idx)) = << >>
    /\ idx' = idx + 1
    /\ UNCHANGED <<transcription, os_type, has_startfile, pc, parts,
                   dispatched, gateway, pending, calls, failures, raised>>

\* self._dispatch(clean_cmd), up to the gateway calls it asks for
LoopDispatch ==
    /\ pc = "loop"
    /\ idx <= Len(parts)
    /\ LET clean_cmd == CleanCmd(part(idx))
           reqs      == dispatch(clean_cmd)
       IN  /\ clean_cmd # << >>
           /\ dispatched' = Append(dispatched, clean_cmd)
           /\ gateway' = gateway \o Tag(reqs, idx)
           /\ pending' = reqs
           /\ IF reqs = << >>
              THEN pc' = "loop" /\ idx' = idx + 1
              ELSE pc' = "gateway" /\ idx' = idx
    /\ UNCHANGED <<transcription, os_type, has_startfile, parts, calls,
                   failures, raised>>

\* one gateway method has run: the calls it attempted are logged, and
\* execute goes on unless the exception left the method
GatewayDone(attempted, failed, propagates) ==
    /\ calls' = calls \o Tag(attempted, idx)
    /\ failures' = IF failed /\ attempted # << >>
                   THEN failures \cup {idx} ELSE failures
    /\ IF failed /\ attempted # << >> /\ propagates
       THEN /\ raised' = TRUE
            /\ pc' = "done"
            /\ pending' = << >>
            /\ idx' = idx
       ELSE /\ raised' = raised
            /\ pending' = Tail(pending)
            /\ IF Tail(pending) = << >>
               THEN pc' = "loop" /\ idx' = idx + 1
               ELSE pc' = "gateway" /\ idx' = idx
    /\ UNCHANGED <<transcription, os_type, has_startfile, parts,
                   dispatched, gateway>>

\* _open_browser(url): webbrowser.open_new_tab(url) returns or raises
open_browser ==
    /\ pc = "gateway"
    /\ Head(pending).fn = "_open_browser"
    /\ \E failed \in BOOLEAN :
          GatewayDone(BrowserCalls(Head(pending).arg), failed,
                      BrowserPropagates(failed))

\* _open_system_settings(target): the launcher of the OS family returns or
\* raises; on an unknown family nothing is launched
open_system_settings ==
    /\ pc = "gateway"
    /\ Head(pending).fn = "_open_system_settings"
    /\ \E failed \in BOOLEAN :
          GatewayDone(SettingsCalls(Head(pending).arg), failed,
                      SettingsPropagates(failed))

\* the for loop is exhausted
ExecuteReturn ==
    /\ pc = "loop"
    /\ idx > Len(parts)
    /\ pc' = "done"
    /\ UNCHANGED <<transcription, os_type, has_startfile, parts, idx,
                   dispatched, gateway, pending, calls, failures, raised>>

Next ==
    \/ ExecuteEmpty
    \/ ExecuteSplit
    \/ LoopContinue
    \/ LoopDispatch
    \/ open_browser
    \/ open_system_settings
    \/ ExecuteReturn

Spec == Init /\ [][Next]_vars

---------------------------------------------------------------------------
(* Vocabulary of the properties *)

\* the external calls segment s caused
CallsOf(s) == SelectSeq(calls, LAMBDA c : c.seg = s)

\* the gateway methods segment s invoked
GatewayOf(s) == SelectSeq(gateway, LAMBDA g : g.seg = s)

\* fragment s has been through the loop body, its calls included
Processed(s) == s \in 1..Len(parts) /\ (s < idx \/ pc = "done")

\* the indexes of the fragments that are segments and have been processed
ProcessedSegments == {s \in 1..Len(parts) : Processed(s) /\ CleanCmd(parts[s]) # << >>}

Segment(s) == CleanCmd(parts[s])

BrowserOpen(url) == [fn |-> "webbrowser.open_new_tab", arg |-> url]

RECURSIVE FindFrom(_, _, _)
\* the first position >= p at which w occurs in s, 0 when there is none
FindFrom(s, w, p) ==
    IF p + Len(w) - 1 > Len(s) THEN 0
    ELSE IF MatchAt(s, p, w) THEN p
    ELSE FindFrom(s, w, p + 1)

RECURSIVE OccurFrom(_, _, _, _)
\* segs[k], segs[k+1], ... occur in s from p on, one after the other
OccurFrom(s, segs, k, p) ==
    IF k > Len(segs) THEN TRUE
    ELSE LET q == FindFrom(s, segs[k], p)
         IN  q > 0 /\ OccurFrom(s, segs, k + 1, q + Len(segs[k]))

\* the texts of segs occur in s left to right without overlapping
OccurInOrder(s, segs) == OccurFrom(s, segs, 1, 1)

---------------------------------------------------------------------------
(* C1 *)

\* C1: the external calls are issued in the left-to-right order of the
\* segments that caused them: the log of calls is ordered by segment, the
\* texts of the causing segments occur in the transcription in that order,
\* every call of segment i is in the log before segment i+1 is classified,
\* each processed segment's calls are the ones its own text asks for, and
\* "open youtube then search dogs" opens YouTube first and the Google
\* search for "dogs" second.
C1_CallsInSegmentOrder ==
    /\ \A k \in 1..Len(calls) :
          /\ k < Len(calls) => calls[k].seg <= calls[k + 1].seg
          /\ pc = "loop" => calls[k].seg < idx
          /\ calls[k].seg <= idx
    /\ OccurInOrder(Lower(transcription),
                    [k \in 1..Len(calls) |-> Segment(calls[k].seg)])
    /\ \A s \in ProcessedSegments :
          Untag(CallsOf(s)) = ReqCalls(dispatch(Segment(s)))
    /\ (pc = "done" /\ transcription = <<"o","p","e","n"," ","y","o","u","t","u","b","e"," ","t","h","e","n"," ","s","e","a","r","c","h"," ","d","o","g","s">>)
          => Untag(calls) =
                << BrowserOpen(<< "https://www.youtube.com" >>),
                   BrowserOpen(<< "https://www.google.com/search?q=" >>
                               \o <<"d","o","g","s">>) >>

\* two segments have each caused a call and the loop is over
C1_Witness ==
    /\ pc = "done"
    /\ Len(calls) >= 2
    /\ calls[1].seg < calls[2].seg

---------------------------------------------------------------------------
(* C2 *)

\* the segment starts with none of the three verbs
NoVerb(command) ==
    /\ ~StartsWith(command, <<"s","e","a","r","c","h">>)
    /\ ~StartsWith(command, <<"f","i","n","d">>)
    /\ ~StartsWith(command, <<"o","p","e","n">>)

\* an "open" segment whose target names neither the settings nor a site
OpenUnknown(command) ==
    /\ StartsWith(command, <<"o","p","e","n">>)
    /\ ~Contains(OpenTarget(command), <<"s","e","t","t","i","n","g">>)
    /\ ~Contains(OpenTarget(command), <<"c","o","n","t","r","o","l"," ","p","a","n","e","l">>)
    /\ \A k \in 1..Len(site_whitelist) :
          ~Contains(OpenTarget(command), site_whitelist[k].key)

\* C2: a segment that starts with none of "search", "find", "open", and an
\* "open" segment whose target contains neither "setting"/"control panel"
\* nor a site name, invokes no gateway method and causes no external call;
\* "frobnicate the whatsit" ends with an empty log of calls.
C2_UnrecognizedNoCalls ==
    /\ \A s \in ProcessedSegments :
          (NoVerb(Segment(s)) \/ OpenUnknown(Segment(s)))
             => CallsOf(s) = << >> /\ GatewayOf(s) = << >>
    /\ (pc = "done" /\ transcription = <<"f","r","o","b","n","i","c","a","t","e"," ","t","h","e"," ","w","h","a","t","s","i","t">>)
          => calls = << >> /\ gateway = << >> /\ Len(dispatched) = 1

\* a run that processed a segment without a verb and an "open" segment
\* with an unknown target
C2_Witness ==
    /\ pc = "done"
    /\ \E s \in ProcessedSegments : NoVerb(Segment(s))
    /\ \E s \in ProcessedSegments : OpenUnknown(Segment(s))

---------------------------------------------------------------------------
(* C3 *)

\* C3: no exception leaves execute, and when execute has returned the
\* commands dispatched and the external calls attempted are those of the
\* run in which no call fails, whichever calls failed.
C3_FailuresSwallowed ==
    /\ raised = FALSE
    /\ pc = "done" =>
          /\ Untag(calls) = RunCalls(transcription)
          /\ dispatched = RunCommands(transcription)

\* the call of one segment failed and a later segment was still executed
C3_Witness ==
    /\ pc = "done"
    /\ \E k \in 1..Len(calls) :
          /\ calls[k].seg \in failures
          /\ k < Len(calls)
          /\ calls[k + 1].seg \notin failures

---------------------------------------------------------------------------
(* C4 *)

IsBlank(s) == \A k \in 1..Len(s) : IsSpace(s[k])

\* C4: the commands handed to _dispatch occur in the transcription in the
\* order they were dispatched, each is non-empty, has no whitespace at
\* either end and no capital letter; when the loop is over there is one for
\* each fragment that is not blank, and none at all when the transcription
\* is empty or blank.
C4_SegmentsOrderedTrimmedLowered ==
    /\ \A k \in 1..Len(dispatched) :
          LET c == dispatched[k]
          IN  /\ c # << >>
              /\ ~IsSpace(c[1])
              /\ ~IsSpace(c[Len(c)])
              /\ \A j \in 1..Len(c) : c[j] \notin UpperLetters
    /\ OccurInOrder(Lower(transcription), dispatched)
    /\ pc = "done" =>
          Len(dispatched) = Cardinality({s \in 1..Len(parts) : ~IsBlank(parts[s])})
    /\ IsBlank(transcription) => dispatched = << >>

\* a run over a transcription with capitals and surrounding whitespace that
\* dispatched two segments and dropped a blank fragment
C4_Witness ==
    /\ pc = "done"
    /\ Len(dispatched) >= 2
    /\ Len(parts) > Len(dispatched)
    /\ transcription # Lower(transcription)
    /\ \E s \in 1..Len(parts) : ~IsBlank(parts[s]) /\ IsSpace(parts[s][1])

\* a blank transcription has been run
C4_BlankRun == pc = "done" /\ IsBlank(transcription) /\ parts # << >>

---------------------------------------------------------------------------
(* C5 *)

\* positions of t at which "and" or "then" stands as a whole word
ConnectivePositions(t) ==
    {p \in 1..Len(t) : WholeWordAt(t, p, <<"a","n","d">>) \/ WholeWordAt(t, p, <<"t","h","e","n">>)}

\* position p of t lies inside a quoted phrase: an odd number of quotation
\* marks precede it
InsideQuotes(t, p) ==
    Cardinality({q \in 1..(p - 1) : t[q] = "\""}) % 2 = 1

HasRun == pc # "execute" /\ transcription # << >>

\* C5: the transcription is split only at "and"/"then" standing as whole
\* words outside quoted phrases: there is one fragment more than there are
\* such connectives, so neither "sandy" nor a quoted "and" splits.
C5_SplitOnlyAtUnquotedWholeWords ==
    HasRun =>
       Len(parts) = 1 + Cardinality({p \in ConnectivePositions(transcription) :
                                        ~InsideQuotes(transcription, p)})

\* the part of C5 the code keeps: one fragment more than there are
\* whole-word connectives, quoted or not, and "open sandy settings" is one
\* fragment
C5_SplitAtWholeWords ==
    HasRun =>
       /\ Len(parts) = 1 + Cardinality(ConnectivePositions(transcription))
       /\ Lower(transcription) = <<"o","p","e","n"," ","s","a","n","d","y"," ","s","e","t","t","i","n","g","s">> => Len(parts) = 1

---------------------------------------------------------------------------
(* C6 *)

\* an "open" segment that is not a settings command
OpenSiteCandidate(command) ==
    /\ StartsWith(command, <<"o","p","e","n">>)
    /\ ~Contains(OpenTarget(command), <<"s","e","t","t","i","n","g">>)
    /\ ~Contains(OpenTarget(command), <<"c","o","n","t","r","o","l"," ","p","a","n","e","l">>)

\* the whitelist entries named in the target of command
NamedSites(command) ==
    {k \in 1..Len(site_whitelist) :
        Contains(OpenTarget(command), site_whitelist[k].key)}

\* C6: an "open" segment that is not a settings command and names at least
\* one site causes exactly one external call, the browser open of the URL
\* of the named entry that comes first in the whitelist; "open youtube
\* music" opens https://www.youtube.com and nothing else.
C6_FirstSiteOnly ==
    /\ \A s \in ProcessedSegments :
          LET named == NamedSites(Segment(s))
          IN  (OpenSiteCandidate(Segment(s)) /\ named # {}) =>
                 \E k \in named :
                    /\ \A j \in named : k <= j
                    /\ Untag(CallsOf(s)) =
                          << BrowserOpen(<< site_whitelist[k].url >>) >>
    /\ (pc = "done" /\ transcription = <<"o","p","e","n"," ","y","o","u","t","u","b","e"," ","m","u","s","i","c">>)
          => Untag(calls) = << BrowserOpen(<< "https://www.youtube.com" >>) >>

\* a processed "open" segment names two sites, and the one that comes first
\* in the whitelist comes second in the segment
C6_Witness ==
    \E s \in ProcessedSegments :
       /\ OpenSiteCandidate(Segment(s))
       /\ Contains(Segment(s), <<"g","o","o","g","l","e"," ","y","o","u","t","u","b","e">>)
       /\ Len(CallsOf(s)) = 1

---------------------------------------------------------------------------
(* C7 *)

\* an "open" segment whose target names the settings
OpenSettingsCommand(command) ==
    /\ StartsWith(command, <<"o","p","e","n">>)
    /\ \/ Contains(OpenTarget(command), <<"s","e","t","t","i","n","g">>)
       \/ Contains(OpenTarget(command), <<"c","o","n","t","r","o","l"," ","p","a","n","e","l">>)

\* C7: classification has the priority search/find, open-settings,
\* open-site: a segment that starts with "search" or "find" invokes no
\* gateway method but the browser's; an "open" segment whose target
\* contains "setting" or "control panel" invokes the settings gateway once,
\* with the raw target, and causes no browser open, whatever site its
\* target names.
C7_SettingsBeforeSites ==
    \A s \in ProcessedSegments :
       /\ (StartsWith(Segment(s), <<"s","e","a","r","c","h">>) \/ StartsWith(Segment(s), <<"f","i","n","d">>))
             => \A k \in 1..Len(GatewayOf(s)) :
                   GatewayOf(s)[k].fn = "_open_browser"
       /\ OpenSettingsCommand(Segment(s)) =>
             /\ Untag(GatewayOf(s)) =
                   << [fn |-> "_open_system_settings",
                       arg |-> OpenTarget(Segment(s))] >>
             /\ \A k \in 1..Len(CallsOf(s)) :
                   CallsOf(s)[k].fn # "webbrowser.open_new_tab"

\* a processed settings command whose target also names a site
C7_Witness ==
    \E s \in ProcessedSegments :
       /\ OpenSettingsCommand(Segment(s))
       /\ NamedSites(Segment(s)) # {}
       /\ Len(CallsOf(s)) = 1

---------------------------------------------------------------------------
(* C8 *)

\* the lengths of the prefixes of command of the form
\* (search|find) whitespace+ [ "for" whitespace+ ]
VerbPrefixes(command) ==
    {n \in 1..Len(command) :
        \E verb \in {<<"f","i","n","d">>, <<"s","e","a","r","c","h">>} :
           /\ MatchAt(command, 1, verb)
           /\ \E v \in {Len(verb)} : \E a \in 1..(n - v) :
                 /\ \A j \in (v + 1)..(v + a) : IsSpace(command[j])
                 /\ \/ n = v + a
                    \/ /\ MatchAt(command, v + a + 1, <<"f","o","r">>)
                       /\ n >= v + a + 4
                       /\ \A j \in (v + a + 4)..n : IsSpace(command[j])}

\* command without the longest such prefix, trimmed
Remainder(command) ==
    LET ns == VerbPrefixes(command)
        n  == IF ns = {} THEN 0 ELSE CHOOSE m \in ns : \A j \in ns : j <= m
    IN  Strip(SubSeq(command, n + 1, Len(command)))

\* C8: a segment that starts with "search" or "find" has as its query what
\* remains after the verb, an optional "for" and the whitespace that
\* follows; a non-empty query causes exactly one external call, the browser
\* open of the Google search URL of the quoted query; "search for cats and
\* open youtube" is two segments and causes the search for "cats" and then
\* the open of https://www.youtube.com.
C8_SearchQueryAndUrl ==
    /\ \A s \in ProcessedSegments :
          (StartsWith(Segment(s), <<"s","e","a","r","c","h">>) \/ StartsWith(Segment(s), <<"f","i","n","d">>))
             => LET q == Remainder(Segment(s))
                IN  q # << >> =>
                       Untag(CallsOf(s)) =
                          << BrowserOpen(<< "https://www.google.com/search?q=" >>
                                         \o Quote(q)) >>
    /\ (pc = "done" /\ transcription = <<"s","e","a","r","c","h"," ","f","o","r"," ","c","a","t","s"," ","a","n","d"," ","o","p","e","n"," ","y","o","u","t","u","b","e">>)
          => /\ Len(dispatched) = 2
             /\ Untag(calls) =
                   << BrowserOpen(<< "https://www.google.com/search?q=" >>
                                  \o <<"c","a","t","s">>),
                      BrowserOpen(<< "https://www.youtube.com" >>) >>

\* a processed search segment with "for" after the verb, whose query was
\* searched
C8_Witness ==
    \E s \in ProcessedSegments :
       /\ StartsWith(Segment(s), <<"s","e","a","r","c","h"," ","f","o","r"," ">>)
       /\ Len(Remainder(Segment(s))) < Len(Segment(s)) - 10
       /\ Len(CallsOf(s)) = 1

---------------------------------------------------------------------------
(* C9 *)

\* the SettingsRule lists of the three OS families, top to bottom, and the
\* default target of each
WinRules ==
    << [kw |-> {<<"s","o","u","n","d">>, <<"a","u","d","i","o">>, <<"v","o","l","u","m","e">>},     id |-> "ms-settings:sound"],
       [kw |-> {<<"d","i","s","p","l","a","y">>, <<"s","c","r","e","e","n">>, <<"m","o","n","i","t","o","r">>}, id |-> "ms-settings:display"],
       [kw |-> {<<"p","r","i","v","a","c","y">>, <<"s","e","c","u","r","i","t","y">>},            id |-> "ms-settings:privacy"],
       [kw |-> {<<"b","l","u","e","t","o","o","t","h">>, <<"d","e","v","i","c","e">>},            id |-> "ms-settings:bluetooth"],
       [kw |-> {<<"w","i","f","i">>, <<"n","e","t","w","o","r","k">>, <<"i","n","t","e","r","n","e","t">>},  id |-> "ms-settings:network"],
       [kw |-> {<<"p","o","w","e","r">>, <<"b","a","t","t","e","r","y">>, <<"s","l","e","e","p">>},    id |-> "ms-settings:powersleep"] >>

WinDefault == "ms-settings:"

MacRules ==
    << [kw |-> {<<"s","o","u","n","d">>, <<"a","u","d","i","o">>, <<"v","o","l","u","m","e">>},     id |-> "com.apple.preference.sound"],
       [kw |-> {<<"d","i","s","p","l","a","y">>, <<"s","c","r","e","e","n">>, <<"m","o","n","i","t","o","r">>}, id |-> "com.apple.preference.displays"],
       [kw |-> {<<"p","r","i","v","a","c","y">>, <<"s","e","c","u","r","i","t","y">>},            id |-> "com.apple.preference.security?Privacy"],
       [kw |-> {<<"n","e","t","w","o","r","k">>, <<"w","i","f","i">>, <<"i","n","t","e","r","n","e","t">>},  id |-> "com.apple.preference.network"],
       [kw |-> {<<"u","p","d","a","t","e">>},                           id |-> "com.apple.preferences.softwareupdate"] >>

MacDefault == ""

LinuxRules ==
    << [kw |-> {<<"s","o","u","n","d">>, <<"a","u","d","i","o">>, <<"v","o","l","u","m","e">>},     id |-> << "sound" >>],
       [kw |-> {<<"d","i","s","p","l","a","y">>, <<"s","c","r","e","e","n">>, <<"m","o","n","i","t","o","r">>}, id |-> << "display" >>],
       [kw |-> {<<"n","e","t","w","o","r","k">>, <<"w","i","f","i">>},                id |-> << "network" >>],
       [kw |-> {<<"b","l","u","e","t","o","o","t","h">>},                        id |-> << "bluetooth" >>],
       [kw |-> {<<"p","o","w","e","r">>},                            id |-> << "power" >>] >>

LinuxDefault == << >>

\* the target of the first rule of rules with a keyword in target, else dflt
Resolve(rules, dflt, target) ==
    LET hit == {k \in 1..Len(rules) :
                   \E w \in rules[k].kw : Contains(target, w)}
    IN  IF hit = {} THEN dflt
        ELSE rules[CHOOSE k \in hit : \A j \in hit : k <= j].id

\* C9: a settings command launches exactly one settings target on a known
\* OS family, the one of the first rule of the family's list that has a
\* keyword in the raw target, and the family's default when no rule has
\* one; on another OS nothing is launched.  "open settings sound" launches
\* ms-settings:sound on Windows.
C9_FirstSettingsRuleWins ==
    /\ \A s \in ProcessedSegments :
          OpenSettingsCommand(Segment(s)) =>
             LET t == OpenTarget(Segment(s))
                 c == Untag(CallsOf(s))
             IN  /\ os_type = "windows" =>
                       /\ Len(c) = 1
                       /\ c[1].arg \in
                             {<< Resolve(WinRules, WinDefault, t) >>,
                              << "start", Resolve(WinRules, WinDefault, t) >>}
                 /\ os_type = "darwin" =>
                       c = << [fn |-> "subprocess.run",
                               arg |-> << "open", "x-apple.systempreferences:",
                                          Resolve(MacRules, MacDefault, t) >>] >>
                 /\ os_type = "linux" =>
                       c = << [fn |-> "subprocess.run",
                               arg |-> << "gnome-control-center" >>
                                       \o Resolve(LinuxRules, LinuxDefault, t)] >>
                 /\ os_type \notin {"windows", "darwin", "linux"} => c = << >>
    /\ (pc = "done" /\ os_type = "windows" /\ has_startfile
          /\ transcription = <<"o","p","e","n"," ","s","e","t","t","i","n","g","s"," ","s","o","u","n","d">>)
          => Untag(calls) = << [fn |-> "os.startfile",
                                arg |-> << "ms-settings:sound" >>] >>

\* on Windows a processed settings command has keywords of two rules, the
\* one of the later rule coming first in the target
C9_Witness ==
    /\ os_type = "windows"
    /\ \E s \in ProcessedSegments :
          /\ OpenSettingsCommand(Segment(s))
          /\ Contains(Segment(s), <<"s","c","r","e","e","n">>)
          /\ Contains(Segment(s), <<"v","o","l","u","m","e">>)
          /\ Len(CallsOf(s)) = 1

---------------------------------------------------------------------------
(* C10 *)

\* C10: a transcription and its lower-cased form are split into the same
\* number of fragments, have the same commands dispatched and cause the
\* same sequence of external calls, so any two transcriptions that differ
\* only in letter case do; "OPEN YouTube" opens https://www.youtube.com.
C10_CaseInsensitive ==
    /\ HasRun => Len(parts) = Len(ReSplit(Lower(transcription)))
    /\ pc = "done" =>
          /\ dispatched = RunCommands(Lower(transcription))
          /\ Untag(calls) = RunCalls(Lower(transcription))
    /\ (pc = "done" /\ transcription = <<"O","P","E","N"," ","Y","o","u","T","u","b","e">>)
          => Untag(calls) = << BrowserOpen(<< "https://www.youtube.com" >>) >>

\* a run over a transcription with a capitalised connective and capitalised
\* verbs that caused two calls
C10_Witness ==
    /\ pc = "done"
    /\ Contains(transcription, <<" ","A","N","D"," ">>)
    /\ transcription # Lower(transcription)
    /\ Len(parts) = 2
    /\ Len(calls) = 2

---------------------------------------------------------------------------
(* C11 *)

SearchPrefix == << "https://www.google.com/search?q=" >>

\* C11: every processed segment that starts with "search" or "find"
\* invokes the browser gateway once and causes exactly one browser open,
\* of the Google search URL of a query that is not empty; when no prefix of
\* the form verb, whitespace, optional "for", whitespace exists (a bare
\* verb, a verb glued to more letters) the query is the whole segment, and
\* "search for" is searched as the query "for".
C11_SearchNeverEmpty ==
    /\ \A s \in ProcessedSegments :
          (StartsWith(Segment(s), <<"s","e","a","r","c","h">>) \/ StartsWith(Segment(s), <<"f","i","n","d">>))
             => /\ Len(GatewayOf(s)) = 1
                /\ Len(CallsOf(s)) = 1
                /\ CallsOf(s)[1].fn = "webbrowser.open_new_tab"
                /\ Len(CallsOf(s)[1].arg) > 1
                /\ SubSeq(CallsOf(s)[1].arg, 1, 1) = SearchPrefix
                /\ VerbPrefixes(Segment(s)) = {} =>
                      CallsOf(s)[1].arg = SearchPrefix \o Quote(Segment(s))
    /\ (pc = "done" /\ transcription = <<"s","e","a","r","c","h"," ","f","o","r">>)
          => Untag(calls) = << BrowserOpen(SearchPrefix \o <<"f","o","r">>) >>
    /\ (pc = "done" /\ transcription = <<"f","i","n","d","e","r">>)
          => Untag(calls) = << BrowserOpen(SearchPrefix \o <<"f","i","n","d","e","r">>) >>

\* a run in which a bare verb was searched as its own query
C11_Witness ==
    /\ pc = "done"
    /\ \E s \in ProcessedSegments :
          /\ Segment(s) \in {<<"s","e","a","r","c","h">>, <<"f","i","n","d">>}
          /\ VerbPrefixes(Segment(s)) = {}
          /\ Untag(CallsOf(s)) = << BrowserOpen(SearchPrefix \o Segment(s)) >>

=============================================================================
